---- MODULE Spec2Model ----
(***************************************************************************)
(* Smart To-Do: the task write path of src/lib/tasks.ts (createTask,       *)
(* updateTask, deleteTask, listTasks) over the task table, the per-user    *)
(* Google Calendar (src/lib/calendar.ts) and the Gmail sender              *)
(* (src/lib/email.ts); the routes of app/api/tasks in front of it; and the *)
(* dashboard with its hooks (TasksDashboard, use-tasks) in front of those. *)
(*                                                                         *)
(* One call is handled at a time.  A call step picks the arguments and     *)
(* the outcomes of the outside world (database, mail API, calendar API),   *)
(* runs the whole handler and leaves the call's record in `call`; Return   *)
(* hands the result back and clears the record.                            *)
(*                                                                         *)
(* Spec           calls into lib/tasks, and PATCH                          *)
(* SpecApi        requests to the four task routes                         *)
(* SpecDashboard  clicks on the dashboard and the task-list query          *)
(***************************************************************************)
EXTENDS Integers, Sequences, FiniteSets, TLC

\* ---------------------------------------------------------------- bounds
MaxTasks == 1
MaxOps == 3
\* The records POST /api/tasks may create in SpecApi.
MaxPosts == 2

\* ----------------------------------------------------------- value sets
NULL == "null"
NoEvent == 0
NoDate == 0

taskStatusValues == {"PENDING", "IN_PROGRESS", "COMPLETED"}
taskPriorityValues == {"LOW", "MEDIUM", "HIGH"}

Users == {"u1", "u2"}
Email(u) == IF u = "u1" THEN "u1@mail" ELSE "u2@mail"

TaskIds == 1..MaxTasks

\* Values the requests carry.  "" is the empty title; NULL is JSON null.
Titles == {"t1", "t2"}
Texts == {NULL, "x"}
Dates == {NULL, "D1"}

\* Outcome of the mail API for one call: configured and reachable, failing,
\* or not configured at all.
MailOutcomes == {"ok", "error", "notConfigured"}
\* Outcome of the calendar API for one call: the owner is connected and the
\* API reachable, the API failing, or the owner not connected.
CalendarOutcomes == {"ok", "error", "notConnected"}

\* The fields a request body may carry.
BodyFields == {"title", "description", "status", "priority", "category",
               "dueDate", "emailNotification", "calendarSync"}

Has(p, f) == f \in DOMAIN p
Get(p, f, dflt) == IF Has(p, f) THEN p[f] ELSE dflt
\* Object spread {...a, ...b}: b's keys win.
Spread(a, b) == [f \in (DOMAIN a) \cup (DOMAIN b) |-> IF f \in DOMAIN b THEN b[f] ELSE a[f]]

EmptyObj == [f \in {} |-> NULL]
Prop(f, v) == [g \in {f} |-> v]
Opt(f, Vals) == {EmptyObj} \cup {Prop(f, v) : v \in Vals}

\* ------------------------------------------------------------ the world
\* w.tasks   the Task table, keyed by id
\* w.events  the calendar events that exist
\* w.evSeq   the number of events ever inserted (the next id is evSeq + 1)
\* w.mails   the sendEmail invocations of the running call
\* w.calls   the calendar API requests of the running call
\* w.db      the database calls of the running call so far

MailRec(event, to, outcome) == [event |-> event, to |-> to, outcome |-> outcome]
CalRec(api, eventId, ok) == [api |-> api, eventId |-> eventId, ok |-> ok]

\* src/lib/email.ts sendEmail: skipped when Gmail is not configured, else
\* one gmail.users.messages.send; a failure is caught and logged.
sendEmail(w, mail, event, userEmail) ==
  IF mail = "notConfigured"
  THEN [w EXCEPT !.mails = Append(@, MailRec(event, userEmail, "skipped"))]
  ELSE IF mail = "ok"
  THEN [w EXCEPT !.mails = Append(@, MailRec(event, userEmail, "delivered"))]
  ELSE [w EXCEPT !.mails = Append(@, MailRec(event, userEmail, "failed"))]

\* createCalendarEvent: events.insert, returns the new id or null.
createCalendarEvent(w, cal) ==
  IF cal = "notConnected" THEN [w |-> w, id |-> NoEvent]
  ELSE IF cal = "ok"
  THEN [w |-> [w EXCEPT !.events = @ \cup {w.evSeq + 1},
                        !.evSeq = @ + 1,
                        !.calls = Append(@, CalRec("insert", w.evSeq + 1, TRUE))],
        id |-> w.evSeq + 1]
  ELSE [w |-> [w EXCEPT !.calls = Append(@, CalRec("insert", NoEvent, FALSE))],
        id |-> NoEvent]

\* updateCalendarEvent: events.patch of a stored id; patching an event that
\* does not exist is answered with an error, which is caught (null).
updateCalendarEvent(w, cal, eventId) ==
  IF eventId = NoEvent \/ cal = "notConnected" THEN [w |-> w, id |-> NoEvent]
  ELSE IF cal = "ok" /\ eventId \in w.events
  THEN [w |-> [w EXCEPT !.calls = Append(@, CalRec("patch", eventId, TRUE))],
        id |-> eventId]
  ELSE [w |-> [w EXCEPT !.calls = Append(@, CalRec("patch", eventId, FALSE))],
        id |-> NoEvent]

\* deleteCalendarEvent: events.delete of a stored id; errors are caught.
deleteCalendarEvent(w, cal, eventId) ==
  IF eventId = NoEvent \/ cal = "notConnected" THEN w
  ELSE IF cal = "ok" /\ eventId \in w.events
  THEN [w EXCEPT !.events = @ \ {eventId},
                 !.calls = Append(@, CalRec("delete", eventId, TRUE))]
  ELSE [w EXCEPT !.calls = Append(@, CalRec("delete", eventId, FALSE))]

\* ------------------------------------------------------- src/lib/tasks.ts
Ret(w, result) == [w |-> w, result |-> result]

\* One more database call made by the running call.
DbCall(w) == [w EXCEPT !.db = @ + 1]
\* The database call about to be made is the one that fails (failAt = 0: none).
DbFails(w, failAt) == w.db + 1 = failAt

SetTask(w, id, t) == [w EXCEPT !.tasks = [i \in (DOMAIN w.tasks) \cup {id} |->
                                            IF i = id THEN t ELSE w.tasks[i]]]
DropTask(w, id) == [w EXCEPT !.tasks = [i \in (DOMAIN w.tasks) \ {id} |-> w.tasks[i]]]

\* normalizePayload: the creation defaults.
normalizePayload(payload) ==
  [title |-> payload.title,
   description |-> Get(payload, "description", NULL),
   status |-> Get(payload, "status", "PENDING"),
   priority |-> Get(payload, "priority", "MEDIUM"),
   category |-> Get(payload, "category", NULL),
   dueDate |-> Get(payload, "dueDate", NULL),
   emailNotification |-> Get(payload, "emailNotification", TRUE),
   calendarSync |-> Get(payload, "calendarSync", TRUE)]

\* normalizePartialPayload: only the fields that are not undefined.
normalizePartialPayload(payload) ==
  [f \in (DOMAIN payload) \cap BodyFields |-> payload[f]]

\* The title checks of normalizePayload / normalizePartialPayload.
TitleMissing(payload) == ~Has(payload, "title") \/ payload.title = ""
TitleEmpty(payload) == Has(payload, "title") /\ payload.title = ""

\* A plausible slip: the stamp is never cleared.
computeCompletedAt_neverCleared(previousStatus, nextStatus, now) ==
  IF nextStatus = "COMPLETED" THEN [keep |-> FALSE, at |-> now]
  ELSE [keep |-> TRUE, at |-> NoDate]

\* computeCompletedAt; "keep" stands for undefined (keep the stored value).
computeCompletedAt(previousStatus, nextStatus, now) ==
  IF nextStatus = "COMPLETED" THEN [keep |-> FALSE, at |-> now]
  ELSE IF previousStatus = "COMPLETED" THEN [keep |-> FALSE, at |-> NoDate]
  ELSE [keep |-> TRUE, at |-> NoDate]

\* A plausible slip: previousStatus is cleared on reactivation but never stored.
NextPreviousStatus_notStored(existing, payload) ==
  IF existing.status = "COMPLETED" /\ Get(payload, "status", "undefined") # "COMPLETED"
  THEN NULL ELSE existing.previousStatus

\* A plausible slip: previousStatus is stored on completion but never cleared.
NextPreviousStatus_notCleared(existing, payload) ==
  IF Get(payload, "status", "undefined") = "COMPLETED" /\ existing.status # "COMPLETED"
  THEN existing.status ELSE existing.previousStatus

\* The previousStatus bookkeeping of updateTask.
NextPreviousStatus(existing, payload) ==
  LET next == Get(payload, "status", "undefined")
      stored == IF next = "COMPLETED" /\ existing.status # "COMPLETED"
                THEN existing.status ELSE existing.previousStatus
  IN IF existing.status = "COMPLETED" /\ next # "COMPLETED" THEN NULL ELSE stored

\* A plausible slip: a failed patch falls back to inserting a new event.
syncCalendarAfterWrite_retry(w, cal, task) ==
  IF ~task.calendarSync \/ task.dueDate = NULL
  THEN [w |-> deleteCalendarEvent(w, cal, task.calendarEventId), id |-> NoEvent]
  ELSE IF task.calendarEventId # NoEvent
  THEN LET u == updateCalendarEvent(w, cal, task.calendarEventId)
       IN IF u.id = NoEvent THEN createCalendarEvent(u.w, cal) ELSE u
  ELSE createCalendarEvent(w, cal)

\* syncCalendarAfterWrite: returns the event id or null.
syncCalendarAfterWrite(w, cal, task) ==
  IF ~task.calendarSync \/ task.dueDate = NULL
  THEN [w |-> deleteCalendarEvent(w, cal, task.calendarEventId), id |-> NoEvent]
  ELSE IF task.calendarEventId # NoEvent
  THEN updateCalendarEvent(w, cal, task.calendarEventId)
  ELSE createCalendarEvent(w, cal)

\* A plausible slip: the 'created' email only for tasks with a due date.
NotifyCreated_dueDateOnly(w, task, mail, userEmail) ==
  IF task.dueDate # NULL /\ task.emailNotification
  THEN sendEmail(w, mail, "created", userEmail) ELSE w

\* createTask, the email step: with a due date when emailNotification is on;
\* without one only for a task created as COMPLETED.
NotifyCreated(w, task, mail, userEmail) ==
  IF task.dueDate # NULL
  THEN IF task.emailNotification THEN sendEmail(w, mail, "created", userEmail) ELSE w
  ELSE IF task.status = "COMPLETED" /\ task.emailNotification
  THEN sendEmail(w, mail, "created", userEmail)
  ELSE w

\* A plausible slip: no try/catch, a missing event id fails the call.
CalendarOnCreate_throws(w, task, cal, failAt) ==
  IF task.dueDate # NULL /\ task.calendarSync
  THEN LET c == createCalendarEvent(w, cal)
       IN IF c.id # NoEvent
          THEN IF DbFails(c.w, failAt)
               THEN Ret(DbCall(c.w), "database error")
               ELSE Ret(SetTask(DbCall(c.w), task.id,
                                [task EXCEPT !.calendarEventId = c.id]), "ok")
          ELSE Ret(c.w, "Calendar sync failed")
  ELSE Ret(w, "ok")

\* createTask, the calendar step: with a due date and calendarSync an event is
\* inserted and its id written (database call 2, returned without await: its
\* rejection leaves the function).
CalendarOnCreate(w, task, cal, failAt) ==
  IF task.dueDate # NULL /\ task.calendarSync
  THEN LET c == createCalendarEvent(w, cal)
       IN IF c.id # NoEvent
          THEN IF DbFails(c.w, failAt)
               THEN Ret(DbCall(c.w), "database error")
               ELSE Ret(SetTask(DbCall(c.w), task.id,
                                [task EXCEPT !.calendarEventId = c.id]), "ok")
          ELSE Ret(c.w, "ok")
  ELSE Ret(w, "ok")

\* createTask(payload, userId, userEmail).  Database call 1 is task.create.
createTask(w0, payload, userId, userEmail, now, mail, cal, failAt) ==
  IF TitleMissing(payload) THEN Ret(w0, "Task title is required")
  ELSE IF DbFails(w0, failAt) THEN Ret(DbCall(w0), "database error")
  ELSE
    LET data == normalizePayload(payload)
        id == w0.idSeq + 1
        task == Spread(data, [id |-> id, userId |-> userId,
                              completedAt |-> IF data.status = "COMPLETED" THEN now ELSE NoDate,
                              previousStatus |-> NULL,
                              calendarEventId |-> NoEvent])
        w1 == [SetTask(DbCall(w0), id, task) EXCEPT !.idSeq = id]
    IN CalendarOnCreate(NotifyCreated(w1, task, mail, userEmail), task, cal, failAt)

\* updateTask, the record written by the first task.update.
UpdatedRecord(existing, payload, now) ==
  LET completedAt == computeCompletedAt(existing.status,
                                        Get(payload, "status", "undefined"), now)
  IN Spread(Spread(existing, normalizePartialPayload(payload)),
            [previousStatus |-> NextPreviousStatus(existing, payload),
             completedAt |-> IF completedAt.keep THEN existing.completedAt
                             ELSE completedAt.at])

\* updateTask, the calendar step.  With a due date: syncCalendarAfterWrite, and
\* the id is written when one comes back that differs from the stored one.
\* Without: the stored event is deleted and the stored id cleared.  The write
\* of the id is database call 3, awaited inside try/catch.
CalendarOnUpdate(w, updated, cal, failAt) ==
  IF updated.dueDate # NULL
  THEN LET c == syncCalendarAfterWrite(w, cal, updated)
       IN IF c.id # NoEvent /\ c.id # updated.calendarEventId
          THEN IF DbFails(c.w, failAt) THEN DbCall(c.w)
               ELSE SetTask(DbCall(c.w), updated.id,
                            [updated EXCEPT !.calendarEventId = c.id])
          ELSE c.w
  ELSE LET d == deleteCalendarEvent(w, cal, updated.calendarEventId)
       IN IF updated.calendarEventId # NoEvent
          THEN IF DbFails(d, failAt) THEN DbCall(d)
               ELSE SetTask(DbCall(d), updated.id,
                            [updated EXCEPT !.calendarEventId = NoEvent])
          ELSE d

\* A plausible slip: the createTask condition copied over.
NotifyUpdated_dueDateOnly(w, nextTask, mail, userEmail) ==
  IF nextTask.emailNotification /\ nextTask.dueDate # NULL
  THEN sendEmail(w, mail, "updated", userEmail) ELSE w

\* updateTask, the email step: for every update when emailNotification is on.
NotifyUpdated(w, nextTask, mail, userEmail) ==
  IF nextTask.emailNotification THEN sendEmail(w, mail, "updated", userEmail) ELSE w

\* updateTask(payload, userId, userEmail).  Database calls: 1 task.findUnique,
\* 2 task.update.
updateTask(w0, payload, userId, userEmail, now, mail, cal, failAt) ==
  IF DbFails(w0, failAt) THEN Ret(DbCall(w0), "database error")
  ELSE IF payload.id \notin DOMAIN w0.tasks THEN Ret(DbCall(w0), "Task not found")
  ELSE
    LET wf == DbCall(w0)
        existing == w0.tasks[payload.id]
    IN IF existing.userId # userId THEN Ret(wf, "Unauthorized")
       ELSE IF TitleEmpty(payload) THEN Ret(wf, "Task title must be a non-empty string")
       ELSE IF DbFails(wf, failAt) THEN Ret(DbCall(wf), "database error")
       ELSE
         LET updated == UpdatedRecord(existing, payload, now)
             w1 == SetTask(DbCall(wf), updated.id, updated)
             w2 == CalendarOnUpdate(w1, updated, cal, failAt)
             nextTask == w2.tasks[updated.id]
         IN Ret(NotifyUpdated(w2, nextTask, mail, userEmail), "ok")

\* A plausible slip: the emailNotification flag is not looked at.
NotifyDeleted_always(w, task, mail, userEmail) ==
  sendEmail(w, mail, "deleted", userEmail)

\* deleteTask, the email step: before the record is deleted.
NotifyDeleted(w, task, mail, userEmail) ==
  IF task.emailNotification THEN sendEmail(w, mail, "deleted", userEmail) ELSE w

\* A plausible slip: the ownership check is left out.
deleteTask_noOwnerCheck(w0, id, userId, userEmail, mail, cal, failAt) ==
  IF DbFails(w0, failAt) THEN Ret(DbCall(w0), "database error")
  ELSE IF id \notin DOMAIN w0.tasks THEN Ret(DbCall(w0), "Task not found")
  ELSE
    LET wf == DbCall(w0)
        task == w0.tasks[id]
        w1 == NotifyDeleted(wf, task, mail, userEmail)
        w2 == IF task.calendarEventId # NoEvent
              THEN deleteCalendarEvent(w1, cal, task.calendarEventId) ELSE w1
    IN IF DbFails(w2, failAt) THEN Ret(DbCall(w2), "database error")
       ELSE Ret(DropTask(DbCall(w2), id), "ok")

\* A plausible slip: the calendar event is not cleaned up.
deleteTask_noCleanup(w0, id, userId, userEmail, mail, cal, failAt) ==
  IF DbFails(w0, failAt) THEN Ret(DbCall(w0), "database error")
  ELSE IF id \notin DOMAIN w0.tasks THEN Ret(DbCall(w0), "Task not found")
  ELSE
    LET wf == DbCall(w0)
        task == w0.tasks[id]
    IN IF task.userId # userId THEN Ret(wf, "Unauthorized")
       ELSE
         LET w1 == NotifyDeleted(wf, task, mail, userEmail)
         IN IF DbFails(w1, failAt) THEN Ret(DbCall(w1), "database error")
            ELSE Ret(DropTask(DbCall(w1), id), "ok")

\* deleteTask(id, userId, userEmail).  Database calls: 1 task.findUnique,
\* 2 task.delete.
deleteTask(w0, id, userId, userEmail, mail, cal, failAt) ==
  IF DbFails(w0, failAt) THEN Ret(DbCall(w0), "database error")
  ELSE IF id \notin DOMAIN w0.tasks THEN Ret(DbCall(w0), "Task not found")
  ELSE
    LET wf == DbCall(w0)
        task == w0.tasks[id]
    IN IF task.userId # userId THEN Ret(wf, "Unauthorized")
       ELSE
         LET w1 == NotifyDeleted(wf, task, mail, userEmail)
             w2 == IF task.calendarEventId # NoEvent
                   THEN deleteCalendarEvent(w1, cal, task.calendarEventId) ELSE w1
         IN IF DbFails(w2, failAt) THEN Ret(DbCall(w2), "database error")
            ELSE Ret(DropTask(DbCall(w2), id), "ok")

\* ------------------------------------------------- src/lib/validations.ts
\* optionalText / optionalDate: .optional().transform(v => v ? v : null); the
\* transform maps undefined, null and "" to null.
optionalText(body, f) == IF Has(body, f) /\ body[f] # "" THEN body[f] ELSE NULL

\* What a request may carry beyond the well-formed values: a title of 141
\* characters, a status and a priority outside the enums, a task id that is not
\* a cuid, and a body that is not JSON.
TooLong == "t141"
BadStatus == "DONE"
BadPriority == "URGENT"
BadId == 0
NotJson == [raw |-> "not json"]

\* baseTaskSchema: title z.string().min(1).max(140), status and priority enums.
TitleInvalid(body) == Has(body, "title") /\ body.title \in {"", TooLong}
EnumsInvalid(body) ==
  \/ Has(body, "status") /\ body.status \notin taskStatusValues
  \/ Has(body, "priority") /\ body.priority \notin taskPriorityValues

\* A plausible slip: only the empty title is refused.
taskUpdateSchema_emptyTitleOnly(body, id) ==
  IF Has(body, "title") /\ body.title = ""
  THEN [ok |-> FALSE, data |-> EmptyObj]
  ELSE [ok |-> TRUE,
        data |-> Spread([f \in (DOMAIN body) \cap
                              {"title", "status", "priority",
                               "emailNotification", "calendarSync"} |-> body[f]],
                        [id |-> id,
                         description |-> optionalText(body, "description"),
                         category |-> optionalText(body, "category"),
                         dueDate |-> optionalText(body, "dueDate")])]

\* taskUpdateSchema.parse({...body, id}): the enum, boolean and title keys stay
\* absent when the body lacks them; the keys built with optionalText and
\* optionalDate come out of their transform.  An invalid title, status or
\* priority and an id that is not a cuid fail the parse.
taskUpdateSchema(body, id) ==
  IF TitleInvalid(body) \/ EnumsInvalid(body) \/ id = BadId
  THEN [ok |-> FALSE, data |-> EmptyObj]
  ELSE [ok |-> TRUE,
        data |-> Spread([f \in (DOMAIN body) \cap
                              {"title", "status", "priority",
                               "emailNotification", "calendarSync"} |-> body[f]],
                        [id |-> id,
                         description |-> optionalText(body, "description"),
                         category |-> optionalText(body, "category"),
                         dueDate |-> optionalText(body, "dueDate")])]

\* taskCreateSchema.parse(body): the title is required; status, priority and
\* the two flags get their defaults.
taskCreateSchema(body) ==
  IF ~Has(body, "title") \/ TitleInvalid(body) \/ EnumsInvalid(body)
  THEN [ok |-> FALSE, data |-> EmptyObj]
  ELSE [ok |-> TRUE,
        data |-> [title |-> body.title,
                  description |-> optionalText(body, "description"),
                  status |-> Get(body, "status", "PENDING"),
                  priority |-> Get(body, "priority", "MEDIUM"),
                  category |-> optionalText(body, "category"),
                  dueDate |-> optionalText(body, "dueDate"),
                  emailNotification |-> Get(body, "emailNotification", TRUE),
                  calendarSync |-> Get(body, "calendarSync", TRUE)]]

\* The keys of a task query.
QueryFields == {"status", "priority", "category", "search", "dueFrom", "dueTo", "completed"}

\* taskQuerySchema.parse(Object.fromEntries(searchParams)): status and priority
\* are enums; an empty category, search or completed counts as absent;
\* completed becomes the boolean (val === "true").
taskQuerySchema(params) ==
  IF EnumsInvalid(params) THEN [ok |-> FALSE, data |-> EmptyObj]
  ELSE [ok |-> TRUE,
        data |-> [f \in {g \in DOMAIN params :
                           g \in {"category", "search", "completed"} => params[g] # ""} |->
                    IF f = "completed" THEN params[f] = "true" ELSE params[f]]]

\* ------------------------------------------------ listTasks (src/lib/tasks.ts)
\* new Date(s).getTime(): the instants the model tells apart, NaN otherwise.
NaN == 0
getTime(s) == IF s = "D0" THEN 1 ELSE IF s = "D1" THEN 2 ELSE IF s = "D2" THEN 3 ELSE NaN

\* { contains: s, mode: "insensitive" } for the texts of the model, each of
\* them told by its set of lower-case characters; s is one character.
toLowerCase(c) == IF c = "T" THEN "t" ELSE IF c = "X" THEN "x" ELSE c
Characters(text) ==
  IF text = "t1" THEN {"t", "1"} ELSE IF text = "t2" THEN {"t", "2"}
  ELSE IF text = "x" THEN {"x"} ELSE IF text = "y" THEN {"y"} ELSE {}
contains(text, s) == text # NULL /\ toLowerCase(s) \in Characters(text)

\* buildWhereClause: the where object, one key per condition.
buildWhereClause(params, userId) ==
  LET from == IF Has(params, "dueFrom") /\ params.dueFrom # "" /\ getTime(params.dueFrom) # NaN
              THEN Prop("gte", getTime(params.dueFrom)) ELSE EmptyObj
      to == IF Has(params, "dueTo") /\ params.dueTo # "" /\ getTime(params.dueTo) # NaN
            THEN Prop("lte", getTime(params.dueTo)) ELSE EmptyObj
      ranged == (Has(params, "dueFrom") /\ params.dueFrom # "")
                  \/ (Has(params, "dueTo") /\ params.dueTo # "")
  IN Spread(Spread(Spread(Prop("userId", userId),
                          [f \in (DOMAIN params) \cap {"status", "priority", "category"} |-> params[f]]),
                   Spread(IF Has(params, "search") THEN Prop("OR", params.search) ELSE EmptyObj,
                          IF ranged THEN Prop("dueDate", Spread(from, to)) ELSE EmptyObj)),
            IF Has(params, "completed")
            THEN Prop("completedAt", IF params.completed THEN "not null" ELSE "null")
            ELSE EmptyObj)

\* A plausible slip: the search alternatives sit beside the other conditions
\* (OR: [{ userId, ... }, { title }, { description }]) instead of under them.
Selected_searchBeside(t, where) ==
  \/ Has(where, "OR") /\ (contains(t.title, where.OR) \/ contains(t.description, where.OR))
  \/ /\ t.userId = where.userId
     /\ \A f \in (DOMAIN where) \cap {"status", "priority", "category"} : t[f] = where[f]
     /\ Has(where, "dueDate") =>
          /\ Has(where.dueDate, "gte") => t.dueDate # NULL /\ getTime(t.dueDate) >= where.dueDate.gte
          /\ Has(where.dueDate, "lte") => t.dueDate # NULL /\ getTime(t.dueDate) <= where.dueDate.lte
     /\ Has(where, "completedAt") =>
          IF where.completedAt = "null" THEN t.completedAt = NoDate ELSE t.completedAt # NoDate

\* prisma.task.findMany({ where }): a record is selected when it meets every
\* key of the where object; a null dueDate meets no gte / lte condition.
Selected(t, where) ==
  /\ t.userId = where.userId
  /\ \A f \in (DOMAIN where) \cap {"status", "priority", "category"} : t[f] = where[f]
  /\ Has(where, "OR") => contains(t.title, where.OR) \/ contains(t.description, where.OR)
  /\ Has(where, "dueDate") =>
       /\ Has(where.dueDate, "gte") => t.dueDate # NULL /\ getTime(t.dueDate) >= where.dueDate.gte
       /\ Has(where.dueDate, "lte") => t.dueDate # NULL /\ getTime(t.dueDate) <= where.dueDate.lte
  /\ Has(where, "completedAt") =>
       IF where.completedAt = "null" THEN t.completedAt = NoDate ELSE t.completedAt # NoDate

\* listTasks(query, userId).  Database call 1 is task.findMany; the result is
\* given as the ids of the tasks returned.
listTasks(w0, query, userId, failAt) ==
  LET parsed == taskQuerySchema(query)
  IN IF ~parsed.ok THEN [w |-> w0, result |-> "ZodError", data |-> {}]
     ELSE IF DbFails(w0, failAt)
     THEN [w |-> DbCall(w0), result |-> "Failed to retrieve tasks from database", data |-> {}]
     ELSE [w |-> DbCall(w0), result |-> "ok",
           data |-> {id \in DOMAIN w0.tasks :
                      Selected(w0.tasks[id], buildWhereClause(parsed.data, userId))}]

\* ------------------------------------------------------------- the routes
\* A request comes with the session's user id, or with no session.
NoSession == "none"
Sessions == Users \cup {NoSession}

Respond(r, status) == [w |-> r.w, result |-> r.result, status |-> status, data |-> {}]

\* GET /api/tasks.
RouteGET(w, session, query, failAt) ==
  IF session = NoSession THEN Respond(Ret(w, "Unauthorized"), 401)
  ELSE LET r == listTasks(w, query, session, failAt)
       IN IF r.result = "ok" THEN [Respond(r, 200) EXCEPT !.data = r.data]
          ELSE IF r.result = "ZodError" THEN Respond(Ret(r.w, "Invalid query parameters"), 400)
          ELSE Respond(Ret(r.w, "Unable to fetch tasks. Please try again."), 500)

\* POST /api/tasks.  Whatever createTask throws is an Error: status 400.
RoutePOST(w, session, body, now, mail, cal, failAt) ==
  IF session = NoSession THEN Respond(Ret(w, "Unauthorized"), 401)
  ELSE IF body = NotJson THEN Respond(Ret(w, "Invalid JSON in request body"), 400)
  ELSE LET parsed == taskCreateSchema(body)
       IN IF ~parsed.ok THEN Respond(Ret(w, "ZodError"), 400)
          ELSE LET r == createTask(w, parsed.data, session, Email(session), now, mail, cal, failAt)
               IN Respond(r, IF r.result = "ok" THEN 201 ELSE 400)

\* A plausible slip: the catch block of POST copied over, 400 for every Error.
StatusOfError_always400(message) == 400

\* The catch block of PATCH and DELETE: 404 for "Task not found", 400 for every
\* other Error.
StatusOfError(message) == IF message = "Task not found" THEN 404 ELSE 400

\* PATCH /api/tasks/[taskId].
RoutePATCH(w, session, taskId, body, now, mail, cal, failAt) ==
  IF session = NoSession THEN Respond(Ret(w, "Unauthorized"), 401)
  ELSE IF body = NotJson THEN Respond(Ret(w, "Invalid JSON in request body"), 400)
  ELSE LET parsed == taskUpdateSchema(body, taskId)
       IN IF ~parsed.ok THEN Respond(Ret(w, "ZodError"), 400)
          ELSE LET r == updateTask(w, parsed.data, session, Email(session), now, mail, cal, failAt)
               IN Respond(r, IF r.result = "ok" THEN 200 ELSE StatusOfError(r.result))

\* A plausible slip: the session check is left out.
RouteDELETE_noSessionCheck(w, session, taskId, mail, cal, failAt) ==
  LET r == deleteTask(w, taskId, session, Email(session), mail, cal, failAt)
  IN Respond(r, IF r.result = "ok" THEN 200 ELSE StatusOfError(r.result))

\* DELETE /api/tasks/[taskId].
RouteDELETE(w, session, taskId, mail, cal, failAt) ==
  IF session = NoSession THEN Respond(Ret(w, "Unauthorized"), 401)
  ELSE LET r == deleteTask(w, taskId, session, Email(session), mail, cal, failAt)
       IN Respond(r, IF r.result = "ok" THEN 200 ELSE StatusOfError(r.result))

\* ------------------------------------------- the client (hooks, dashboard)
\* value || null
orNull(v) == IF v = "" THEN NULL ELSE v

\* serializePayload(values): the body of the POST.
serializePayload(values) ==
  [title |-> values.title, description |-> orNull(values.description),
   status |-> values.status, priority |-> values.priority,
   category |-> orNull(values.category), dueDate |-> values.dueDate,
   emailNotification |-> values.emailNotification, calendarSync |-> values.calendarSync]

\* serializePartialPayload(values): the body of the PATCH, the defined keys only.
serializePartialPayload(values) ==
  [f \in (DOMAIN values) \cap BodyFields |->
     IF f \in {"description", "category"} THEN orNull(values[f]) ELSE values[f]]

\* buildQueryString(filters) of the dashboard: status, priority and search are
\* left at "ALL" / "", showCompleted is always sent.
buildQueryString(filters) ==
  Prop("completed", IF filters.showCompleted THEN "true" ELSE "false")

\* What the fetch of useTasksQuery may be answered with: the GET route's
\* response (status and JSON body), a response that is not JSON (a proxy's
\* page) with or without a status text, or no response at all.
NoResponse == 0
Answer(status, json, error, statusText, data) ==
  [status |-> status, json |-> json, error |-> error, statusText |-> statusText, data |-> data]
ForeignAnswers ==
  { Answer(404, FALSE, NULL, "", {}), Answer(404, FALSE, NULL, "Not Found", {}),
    Answer(502, FALSE, NULL, "", {}), Answer(NoResponse, FALSE, NULL, "", {}) }

\* `HTTP ${response.status}`
HttpMessage(status) ==
  IF status = 404 THEN "HTTP 404" ELSE IF status = 502 THEN "HTTP 502" ELSE "HTTP"

\* queryFn: the message of the Error thrown for an answer that is not ok.
queryFnError(answer) ==
  IF answer.status = NoResponse THEN "Failed to fetch"
  ELSE IF answer.json THEN answer.error
  ELSE IF answer.statusText # "" THEN answer.statusText
  ELSE HttpMessage(answer.status)

\* error.message.includes("HTTP 4"), over the messages queryFn throws.
includesHTTP4(message) == message = "HTTP 404"

\* retry(failureCount, error) of useTasksQuery; the query library calls it
\* with the number of failures before this one.
retry(failureCount, message) ==
  IF includesHTTP4(message) THEN FALSE ELSE failureCount < 2

\* queryClient.invalidateQueries: the list is fetched again, the data shown stays.
invalidateQueries(q) == [q EXCEPT !.state = "pending", !.failureCount = 0, !.retries = 0]

\* What the dashboard reads of a listed task.
Listed(w, ids) ==
  { [id |-> i, status |-> w.tasks[i].status, previousStatus |-> w.tasks[i].previousStatus] :
      i \in ids }

\* A plausible slip: a completed task always goes back to PENDING.
nextStatus_alwaysPending(task) ==
  IF task.status = "COMPLETED" THEN "PENDING" ELSE "COMPLETED"

\* handleStatusToggle: the status the toggle asks for.
nextStatus(task) ==
  IF task.status = "COMPLETED"
  THEN IF task.previousStatus \in {"PENDING", "IN_PROGRESS"} THEN task.previousStatus
       ELSE "PENDING"
  ELSE "COMPLETED"

\* ------------------------------------------------------- the request sets
\* What createTask is called with: the output of taskCreateSchema.
CreatePayloads ==
  [title : {"t1"}, description : {"x"}, status : taskStatusValues,
   priority : {"HIGH"}, category : {"x"}, dueDate : Dates,
   emailNotification : BOOLEAN, calendarSync : BOOLEAN]

\* What updateTask is called with: any part of the status, due date and flags.
UpdatePayloads ==
  { Spread(Spread(s, d), Spread(c, e)) :
      s \in Opt("status", taskStatusValues), d \in Opt("dueDate", Dates),
      c \in Opt("calendarSync", BOOLEAN), e \in Opt("emailNotification", BOOLEAN) }

\* The outside world of one call: mail outcome, calendar outcome and the
\* database call that fails (0: none).
Up == <<"ok", "ok", 0>>
Worlds == { <<m, c, 0>> : m \in MailOutcomes, c \in CalendarOutcomes }
DbDown(nDb) == { <<"ok", "ok", k>> : k \in 1..nDb }

\* A short payload for the calls that end before the payload is looked at
\* (caller is not the owner, no such task, database down).
ProbePayloads == { [status |-> "COMPLETED"] }

\* Request bodies of PATCH: two full bodies, and of each the empty part,
\* every single field and every body lacking a single field.
FullBodies ==
  { [title |-> "t2", description |-> NULL, status |-> "COMPLETED", priority |-> "LOW",
     category |-> NULL, dueDate |-> NULL, emailNotification |-> FALSE,
     calendarSync |-> FALSE],
    [title |-> "t2", description |-> "y", status |-> "IN_PROGRESS", priority |-> "MEDIUM",
     category |-> "y", dueDate |-> "D1", emailNotification |-> TRUE,
     calendarSync |-> TRUE] }
Parts == {{}, BodyFields} \cup {{f} : f \in BodyFields} \cup {BodyFields \ {f} : f \in BodyFields}
PatchBodies == { [f \in S |-> b[f]] : b \in FullBodies, S \in Parts }

\* Bodies that fail the schemas, for POST and PATCH alike.
InvalidBodies ==
  { [title |-> ""], [title |-> TooLong], [title |-> "t1", status |-> BadStatus],
    [title |-> "t1", priority |-> BadPriority], NotJson }

\* Bodies of POST: what serializePayload sends for a few forms, a body with the
\* title alone, and a body without a title.
PostBodies ==
  { [title |-> "t1", description |-> d, status |-> st, priority |-> "HIGH",
     category |-> NULL, dueDate |-> due, emailNotification |-> TRUE, calendarSync |-> TRUE] :
      d \in Texts, st \in {"PENDING", "COMPLETED"}, due \in Dates }
  \cup { [title |-> "t2"], EmptyObj }

\* The task ids a route is asked for: the ids of the model and one that is not a cuid.
RouteIds == TaskIds \cup {BadId}

\* Query strings of GET: every one or two of these parameters.
QueryParams ==
  {EmptyObj}
  \cup {Prop("status", v) : v \in {"PENDING", "COMPLETED", BadStatus}}
  \cup {Prop("priority", v) : v \in {"HIGH", "MEDIUM"}}
  \cup {Prop("category", v) : v \in {"x", ""}}
  \cup {Prop("search", v) : v \in {"T", "1", "x"}}
  \cup {Prop("dueFrom", v) : v \in {"D0", "D2", "soon"}}
  \cup {Prop("dueTo", v) : v \in {"D0", "D2"}}
  \cup {Prop("completed", v) : v \in {"true", "false", ""}}
Queries == { Spread(a, b) : a \in QueryParams, b \in QueryParams }

\* The signed-in user of the dashboard, and what the task form may hold.
DashboardUser == "u1"
FormValues ==
  [title : {"t1"}, description : {"", "x"}, status : taskStatusValues,
   priority : {"MEDIUM"}, category : {""}, dueDate : Dates,
   emailNotification : {TRUE}, calendarSync : BOOLEAN]

\* ---------------------------------------------------------------- state
\* The server: the Task table, the calendar, the id counters, the clock and the
\* record of the call being handled.  The dashboard of one browser tab:
\* dialogOpen and editingTask (useState in TasksDashboard), the showCompleted
\* filter and the state of useTasksQuery.
VARIABLES tasks, events, idSeq, evSeq, clock, call,
          dialogOpen, editingTask, showCompleted, query
server == <<tasks, events, idSeq, evSeq, clock, call>>
dashboard == <<dialogOpen, editingTask, showCompleted, query>>
vars == <<tasks, events, idSeq, evSeq, clock, call,
          dialogOpen, editingTask, showCompleted, query>>

NoCall == [op |-> "none"]
World == [tasks |-> tasks, events |-> events, idSeq |-> idSeq, evSeq |-> evSeq,
          mails |-> <<>>, calls |-> <<>>, db |-> 0]

\* useTasksQuery before its first fetch: no data, nothing failed yet.
NoTask == 0
FreshQuery == [state |-> "pending", failureCount |-> 0, retries |-> 0,
               lastStatus |-> 0, lastError |-> NULL, data |-> {}]

Init ==
  /\ tasks = [i \in {} |-> NULL]
  /\ events = {}
  /\ idSeq = 0
  /\ evSeq = 0
  /\ clock = 0
  /\ call = NoCall
  /\ dialogOpen = FALSE
  /\ editingTask = NoTask
  /\ showCompleted = FALSE
  /\ query = FreshQuery

\* The handler has run: its effects are in place and its record is kept.
Effects(r, rec) ==
  /\ tasks' = r.w.tasks
  /\ events' = r.w.events
  /\ idSeq' = r.w.idSeq
  /\ evSeq' = r.w.evSeq
  /\ clock' = clock + 1
  /\ call' = Spread(rec, [result |-> r.result, mails |-> r.w.mails, calls |-> r.w.calls,
                          db |-> r.w.db, now |-> clock + 1, pre |-> World])

\* A call made to the server directly: the dashboard is not involved.
Commit(r, rec) == Effects(r, rec) /\ UNCHANGED dashboard

\* The session that creates the n-th task: the users take turns.
Creators(n) == IF n % 2 = 1 THEN {"u1"} ELSE {"u2"}

IsOwner(u, id) == id \in DOMAIN tasks /\ tasks[id].userId = u

CreateTask ==
  /\ call = NoCall /\ clock < MaxOps /\ idSeq < MaxTasks
  /\ \E u \in Creators(idSeq + 1), payload \in CreatePayloads, x \in Worlds \cup DbDown(2) :
       Commit(createTask(World, payload, u, Email(u), clock + 1, x[1], x[2], x[3]),
              [op |-> "createTask", userId |-> u, id |-> idSeq + 1, payload |-> payload,
               mail |-> x[1], cal |-> x[2], failAt |-> x[3]])

UpdateTask ==
  /\ call = NoCall /\ clock < MaxOps
  /\ \E u \in Users, id \in TaskIds, p \in UpdatePayloads, x \in Worlds \cup DbDown(3) :
       /\ \/ IsOwner(u, id) /\ x[3] \in {0, 3}
          \/ p \in ProbePayloads /\ x \in {Up} \cup DbDown(3)
       /\ LET payload == Spread(p, [id |-> id])
          IN Commit(updateTask(World, payload, u, Email(u), clock + 1, x[1], x[2], x[3]),
                    [op |-> "updateTask", userId |-> u, id |-> id, payload |-> payload,
                     mail |-> x[1], cal |-> x[2], failAt |-> x[3]])

DeleteTask ==
  /\ call = NoCall /\ clock < MaxOps
  /\ \E u \in Users, id \in TaskIds, x \in Worlds \cup DbDown(2) :
       /\ IsOwner(u, id) \/ x \in {Up} \cup DbDown(2)
       /\ Commit(deleteTask(World, id, u, Email(u), x[1], x[2], x[3]),
                 [op |-> "deleteTask", userId |-> u, id |-> id, payload |-> EmptyObj,
                  mail |-> x[1], cal |-> x[2], failAt |-> x[3]])

\* PATCH /api/tasks/[taskId].  The owner sends every body; the requests that
\* end before the body matters send the empty and the invalid ones.
PATCH ==
  /\ call = NoCall /\ clock < MaxOps
  /\ \E session \in Sessions, id \in RouteIds, body \in PatchBodies \cup InvalidBodies,
        failAt \in 0..2 :
       /\ \/ (IsOwner(session, id) \/ (session \in Users /\ id \notin DOMAIN tasks)) /\ failAt = 0
          \/ body = EmptyObj
          \/ body \in InvalidBodies /\ failAt = 0
       /\ LET r == RoutePATCH(World, session, id, body, clock + 1, "ok", "ok", failAt)
          IN Commit(r, [op |-> "PATCH", userId |-> session, id |-> id, body |-> body,
                        payload |-> taskUpdateSchema(body, id).data,
                        mail |-> "ok", cal |-> "ok", failAt |-> failAt, status |-> r.status])

\* POST /api/tasks.
POST ==
  /\ call = NoCall /\ clock < MaxOps /\ idSeq < MaxPosts
  /\ \E session \in Creators(idSeq + 1) \cup {NoSession}, body \in PostBodies \cup InvalidBodies,
        failAt \in 0..2 :
       /\ (session = NoSession \/ failAt # 0) => body = [title |-> "t2"]
       /\ LET r == RoutePOST(World, session, body, clock + 1, "ok", "ok", failAt)
          IN Commit(r, [op |-> "POST", userId |-> session, id |-> idSeq + 1, body |-> body,
                        payload |-> taskCreateSchema(body).data,
                        mail |-> "ok", cal |-> "ok", failAt |-> failAt, status |-> r.status])

\* DELETE /api/tasks/[taskId].
DELETE ==
  /\ call = NoCall /\ clock < MaxOps
  /\ \E session \in Sessions, id \in RouteIds, failAt \in 0..2 :
       LET r == RouteDELETE(World, session, id, "ok", "ok", failAt)
       IN Commit(r, [op |-> "DELETE", userId |-> session, id |-> id, payload |-> EmptyObj,
                     mail |-> "ok", cal |-> "ok", failAt |-> failAt, status |-> r.status])

\* GET /api/tasks.
GET ==
  /\ call = NoCall /\ clock < MaxOps
  /\ \E session \in Sessions, q \in Queries, failAt \in 0..1 :
       /\ (session = NoSession \/ failAt # 0) => q = EmptyObj
       /\ LET r == RouteGET(World, session, q, failAt)
          IN Commit(r, [op |-> "GET", userId |-> session, query |-> q, payload |-> EmptyObj,
                        mail |-> "ok", cal |-> "ok", failAt |-> failAt, status |-> r.status,
                        data |-> r.data])

Return ==
  /\ call # NoCall
  /\ call' = NoCall
  /\ UNCHANGED <<tasks, events, idSeq, evSeq, clock>>
  /\ UNCHANGED dashboard

Next == CreateTask \/ UpdateTask \/ DeleteTask \/ PATCH \/ Return

Spec == Init /\ [][Next]_vars

\* ---------------------------------------------------------- the dashboard
\* A mutation of the dashboard has been answered: onSuccess invalidates the
\* task list.
Mutated(r, rec) ==
  /\ Effects(r, Spread(rec, [userId |-> DashboardUser, mail |-> "ok", cal |-> "ok",
                             failAt |-> 0, status |-> r.status]))
  /\ query' = IF r.result = "ok" THEN invalidateQueries(query) ELSE query
  /\ showCompleted' = showCompleted

\* handleSubmit(values): PATCH for the task being edited, POST otherwise; the
\* dialog closes when the request succeeds.
handleSubmit ==
  /\ call = NoCall /\ clock < MaxOps /\ dialogOpen
  /\ editingTask = NoTask => idSeq < MaxTasks
  /\ \E values \in FormValues :
       LET body == IF editingTask # NoTask THEN serializePartialPayload(values)
                   ELSE serializePayload(values)
           r == IF editingTask # NoTask
                THEN RoutePATCH(World, DashboardUser, editingTask, body, clock + 1, "ok", "ok", 0)
                ELSE RoutePOST(World, DashboardUser, body, clock + 1, "ok", "ok", 0)
       IN /\ Mutated(r, [op |-> "handleSubmit", body |-> body,
                          id |-> IF editingTask # NoTask THEN editingTask ELSE idSeq + 1,
                          payload |-> IF editingTask # NoTask
                                      THEN taskUpdateSchema(body, editingTask).data
                                      ELSE taskCreateSchema(body).data])
          /\ dialogOpen' = IF r.result = "ok" THEN FALSE ELSE dialogOpen
          /\ editingTask' = IF r.result = "ok" THEN NoTask ELSE editingTask

\* handleEdit(task), from the menu of a listed task.
handleEdit ==
  /\ call = NoCall
  /\ \E task \in query.data :
       /\ editingTask' = task.id
       /\ dialogOpen' = TRUE
  /\ UNCHANGED <<tasks, events, idSeq, evSeq, clock, call, showCompleted, query>>

\* "New task": setDialogOpen(true).
onCreate ==
  /\ call = NoCall /\ ~dialogOpen
  /\ dialogOpen' = TRUE
  /\ UNCHANGED <<tasks, events, idSeq, evSeq, clock, call, editingTask, showCompleted, query>>

\* onOpenChange(false): the dialog is dismissed.
onOpenChange ==
  /\ call = NoCall /\ dialogOpen
  /\ editingTask' = NoTask
  /\ dialogOpen' = FALSE
  /\ UNCHANGED <<tasks, events, idSeq, evSeq, clock, call, showCompleted, query>>

\* handleStatusToggle(task), "Complete task" / "Mark active" of a listed task:
\* updateTask.mutate({ id, values: { status: nextStatus } }).
handleStatusToggle ==
  /\ call = NoCall /\ clock < MaxOps
  /\ \E task \in query.data :
       LET body == serializePartialPayload([status |-> nextStatus(task)])
           r == RoutePATCH(World, DashboardUser, task.id, body, clock + 1, "ok", "ok", 0)
       IN Mutated(r, [op |-> "handleStatusToggle", task |-> task, id |-> task.id,
                      body |-> body, payload |-> taskUpdateSchema(body, task.id).data])
  /\ UNCHANGED <<dialogOpen, editingTask>>

\* handleDelete(taskId) of a listed task.
handleDelete ==
  /\ call = NoCall /\ clock < MaxOps
  /\ \E task \in query.data :
       Mutated(RouteDELETE(World, DashboardUser, task.id, "ok", "ok", 0),
               [op |-> "handleDelete", id |-> task.id, payload |-> EmptyObj])
  /\ UNCHANGED <<dialogOpen, editingTask>>

\* The "Show completed" switch: another query key, fetched afresh.
setFilters ==
  /\ call = NoCall
  /\ showCompleted' = ~showCompleted
  /\ query' = FreshQuery
  /\ UNCHANGED <<tasks, events, idSeq, evSeq, clock, call, dialogOpen, editingTask>>

\* One run of queryFn and what the query library does with its outcome: the
\* data on success; on failure retry is asked, and the run is repeated or the
\* query ends in error.  The session may have expired, the database may be down.
fetchTasks ==
  /\ call = NoCall /\ query.state \in {"pending", "retrying"}
  /\ \E session \in {DashboardUser, NoSession}, failAt \in 0..1, foreign \in ForeignAnswers \cup {EmptyObj} :
       LET r == RouteGET(World, session, buildQueryString([showCompleted |-> showCompleted]), failAt)
           answer == IF foreign # EmptyObj THEN foreign
                     ELSE Answer(r.status, TRUE, r.result, "", r.data)
           message == queryFnError(answer)
       IN /\ foreign # EmptyObj => session = DashboardUser /\ failAt = 0
          /\ query' =
               IF answer.status = 200
               THEN [state |-> "success", failureCount |-> 0, retries |-> query.retries,
                     lastStatus |-> 200, lastError |-> NULL, data |-> Listed(World, answer.data)]
               ELSE IF retry(query.failureCount, message)
               THEN [query EXCEPT !.state = "retrying", !.failureCount = @ + 1, !.retries = @ + 1,
                                  !.lastStatus = answer.status, !.lastError = message]
               ELSE [query EXCEPT !.state = "error", !.failureCount = @ + 1,
                                  !.lastStatus = answer.status, !.lastError = message]
  /\ UNCHANGED <<tasks, events, idSeq, evSeq, clock, call, dialogOpen, editingTask, showCompleted>>

NextDashboard ==
  \/ handleSubmit \/ handleEdit \/ onCreate \/ onOpenChange \/ handleStatusToggle
  \/ handleDelete \/ setFilters \/ fetchTasks \/ Return

SpecDashboard == Init /\ [][NextDashboard]_vars

\* The HTTP routes alone: every request goes through a route handler.
NextApi == POST \/ PATCH \/ DELETE \/ GET \/ Return

SpecApi == Init /\ [][NextApi]_vars

\* ------------------------------------------------------------ properties
\* The properties look at the record of the call that has just run: its
\* arguments, the world before it (call.pre) and what it did.

UpdateOps == {"updateTask", "PATCH"}
Succeeded(ops) == call.op \in ops /\ call.result = "ok"
Stored == tasks[call.id]
Prior == call.pre.tasks[call.id]
PayloadStatus == Get(call.payload, "status", "undefined")
Delivery(mail) == IF mail = "ok" THEN "delivered"
                  ELSE IF mail = "error" THEN "failed" ELSE "skipped"
OneMail(event) == << MailRec(event, Email(call.userId), Delivery(call.mail)) >>

\* C1: an updateTask with status COMPLETED on a task stored as PENDING or
\* IN_PROGRESS leaves it COMPLETED, with previousStatus the status stored just
\* before and completedAt the time of the update.
C1_CompletionStamped ==
  (Succeeded(UpdateOps) /\ PayloadStatus = "COMPLETED"
     /\ Prior.status \in {"PENDING", "IN_PROGRESS"})
  => /\ Stored.status = "COMPLETED"
     /\ Stored.previousStatus = Prior.status
     /\ Stored.completedAt = call.now

C1_Witness ==
  /\ Succeeded({"updateTask"}) /\ PayloadStatus = "COMPLETED"
  /\ Prior.status = "IN_PROGRESS" /\ Prior.completedAt = NoDate
  /\ Stored.previousStatus = "IN_PROGRESS" /\ Stored.completedAt = call.now

\* C2: an updateTask with status PENDING or IN_PROGRESS on a task stored as
\* COMPLETED leaves previousStatus null and completedAt null.
C2_ReactivationClears ==
  (Succeeded(UpdateOps) /\ PayloadStatus \in {"PENDING", "IN_PROGRESS"}
     /\ Prior.status = "COMPLETED")
  => /\ Stored.previousStatus = NULL
     /\ Stored.completedAt = NoDate

C2_Witness ==
  /\ Succeeded({"updateTask"}) /\ PayloadStatus = "PENDING"
  /\ Prior.status = "COMPLETED" /\ Prior.previousStatus = "IN_PROGRESS"
  /\ Prior.completedAt # NoDate
  /\ Stored.status = "PENDING" /\ Stored.previousStatus = NULL
  /\ Stored.completedAt = NoDate

\* C3: after a successful createTask or updateTask that leaves the task with a
\* due date and calendarSync on, the calendar connected and reachable (and the
\* database up), the stored calendarEventId is non-null and names an existing
\* event: inserted when no id was stored, patched otherwise.
C3_EventStoredAndExists ==
  (Succeeded({"createTask"} \cup UpdateOps) /\ call.cal = "ok" /\ call.failAt = 0
     /\ Stored.dueDate # NULL /\ Stored.calendarSync)
  => /\ Stored.calendarEventId # NoEvent
     /\ Stored.calendarEventId \in events
     /\ IF call.op = "createTask" \/ Prior.calendarEventId = NoEvent
        THEN call.calls = << CalRec("insert", Stored.calendarEventId, TRUE) >>
        ELSE call.calls = << CalRec("patch", Prior.calendarEventId, TRUE) >>

\* C4: after a successful updateTask that leaves the task without a due date or
\* with calendarSync off (calendar reachable, database up), the event whose id
\* was stored is deleted and the stored calendarEventId is null.
C4_EventDeletedAndCleared ==
  (Succeeded(UpdateOps) /\ call.cal = "ok" /\ call.failAt = 0
     /\ (Stored.dueDate = NULL \/ ~Stored.calendarSync))
  => /\ Prior.calendarEventId \notin events
     /\ Stored.calendarEventId = NoEvent

C6_UpdatedEmailAlways ==
  (Succeeded(UpdateOps) /\ Stored.emailNotification)
  => call.mails = << MailRec("updated", Email(Stored.userId), Delivery(call.mail)) >>

C6_Witness ==
  /\ Succeeded({"updateTask"}) /\ Stored.emailNotification
  /\ ~Has(call.payload, "status") /\ Stored.dueDate = NULL
  /\ call.cal = "error" /\ Len(call.calls) = 1 /\ ~call.calls[1].ok
  /\ call.mails = << MailRec("updated", "u1@mail", "delivered") >>

\* C7 as stated: a deleteTask whose database delete does not succeed sends no
\* 'deleted' email.
C7_NoDeletedEmailUnlessDeleted ==
  (call.op = "deleteTask" /\ call.result # "ok") => call.mails = << >>

\* C7 as amended: the 'deleted' email is sent before the database delete, once
\* the task is found and the caller is its owner (and emailNotification is
\* on); a call that ends at the lookup sends none, a call whose delete then
\* fails has already sent it.
C7_DeletedEmailBeforeDelete ==
  call.op = "deleteTask"
  => call.mails = IF /\ call.failAt # 1
                     /\ call.id \in DOMAIN call.pre.tasks
                     /\ Prior.userId = call.userId
                     /\ Prior.emailNotification
                  THEN OneMail("deleted") ELSE << >>

C7_Witness ==
  /\ call.op = "deleteTask" /\ call.failAt = 2 /\ call.result = "database error"
  /\ call.id \in DOMAIN tasks
  /\ call.mails = << MailRec("deleted", "u1@mail", "delivered") >>

\* The fields C8 speaks of, per stored task.
CoreFields == BodyFields \cup {"previousStatus", "completedAt"}
Core(ts) == [i \in DOMAIN ts |-> [f \in CoreFields |-> ts[i][f]]]

\* The call that has just run, run again from the same world with the mail and
\* the calendar API both working.
WithIntegrationsUp ==
  IF call.op = "createTask"
  THEN createTask(call.pre, call.payload, call.userId, Email(call.userId), call.now,
                  "ok", "ok", call.failAt)
  ELSE IF call.op = "deleteTask"
  THEN deleteTask(call.pre, call.id, call.userId, Email(call.userId),
                  "ok", "ok", call.failAt)
  ELSE updateTask(call.pre, call.payload, call.userId, Email(call.userId), call.now,
                  "ok", "ok", call.failAt)

C9_NoRetry ==
  call.op # "none"
  => /\ Len(call.calls) <= 1
     /\ Len(call.mails) <= 1

C9_Witness ==
  /\ Succeeded({"updateTask"})
  /\ call.calls = << CalRec("patch", Prior.calendarEventId, FALSE) >>
  /\ call.mails = << MailRec("updated", "u1@mail", "failed") >>

\* C10: a successful PATCH leaves every one of the eight fields that the body
\* does not hold as it was stored.
C10_AbsentFieldsKept ==
  Succeeded({"PATCH"})
  => \A f \in BodyFields \ DOMAIN call.body : Stored[f] = Prior[f]

\* ------------------------------------------------- ownership and deletion
Unchanged == tasks = call.pre.tasks /\ events = call.pre.events /\ idSeq = call.pre.idSeq
Silent == call.mails = << >> /\ call.calls = << >>

\* The call reached updateTask or deleteTask with a user who does not own the
\* stored task, and the lookup worked.
ByNonOwner ==
  /\ \/ call.op \in {"updateTask", "deleteTask"}
     \/ call.op = "PATCH" /\ call.userId # NoSession /\ call.body = EmptyObj
  /\ call.id \in DOMAIN call.pre.tasks
  /\ Prior.userId # call.userId
  /\ call.failAt # 1

\* C11: updateTask or deleteTask by a user who is not the owner fails with
\* 'Unauthorized', leaves the record as it was and makes no email and no
\* calendar call; and whatever call has just run, every record it changed or
\* deleted belonged to the caller.
C11_OnlyOwnerWrites ==
  /\ ByNonOwner => call.result = "Unauthorized" /\ Unchanged /\ Silent
  /\ call.op # "none" =>
       \A id \in DOMAIN call.pre.tasks :
         (id \notin DOMAIN tasks \/ tasks[id] # call.pre.tasks[id])
           => call.pre.tasks[id].userId = call.userId

C11_Witness ==
  /\ call.op = "deleteTask" /\ ByNonOwner /\ call.result = "Unauthorized"
  /\ Stored.emailNotification /\ Stored.calendarEventId \in events
  /\ call.userId = "u2" /\ Stored.userId = "u1"

\* C13: after a successful deleteTask by the owner the record is gone, and when
\* an event id was stored and the calendar is connected and reachable, no
\* event with that id exists.
C13_DeleteRemovesRecordAndEvent ==
  Succeeded({"deleteTask"})
  => /\ call.id \notin DOMAIN tasks
     /\ (Prior.calendarEventId # NoEvent /\ call.cal = "ok")
          => Prior.calendarEventId \notin events

C13_Witness ==
  /\ Succeeded({"deleteTask"}) /\ call.cal = "ok"
  /\ Prior.calendarEventId \in call.pre.events
  /\ call.calls = << CalRec("delete", Prior.calendarEventId, TRUE) >>
  /\ events = {} /\ call.id \notin DOMAIN tasks

\* ------------------------------------------------------------ the routes
Routes == {"GET", "POST", "PATCH", "DELETE"}
Authenticated == call.op \in Routes /\ call.userId # NoSession

\* The task satisfies every parameter the query supplies (an empty value
\* supplies nothing): status, priority and category by equality, search by a
\* case-insensitive occurrence in the title or the description, dueFrom and
\* dueTo by the due date lying in the range, completed=true by completedAt
\* being set and completed=false by its being null.
Supplied(q, f) == Has(q, f) /\ q[f] # ""
Satisfies(t, q) ==
  /\ \A f \in {"status", "priority", "category"} : Supplied(q, f) => t[f] = q[f]
  /\ Supplied(q, "search") => contains(t.title, q.search) \/ contains(t.description, q.search)
  /\ Supplied(q, "dueFrom") => t.dueDate # NULL /\ getTime(t.dueDate) >= getTime(q.dueFrom)
  /\ Supplied(q, "dueTo") => t.dueDate # NULL /\ getTime(t.dueDate) <= getTime(q.dueTo)
  /\ Supplied(q, "completed") => (t.completedAt # NoDate <=> q.completed = "true")

\* The dates of the query are dates.
DatesParse(q) == \A f \in {"dueFrom", "dueTo"} : Supplied(q, f) => getTime(q[f]) # NaN

C15_MissingTaskIs404 ==
  (Authenticated /\ call.op \in {"PATCH", "DELETE"}
     /\ call.id \in TaskIds /\ call.id \notin DOMAIN call.pre.tasks
     /\ (call.op = "PATCH" => call.body \in PatchBodies)
     /\ call.failAt # 1)
  => /\ call.status = 404 /\ call.result = "Task not found"
     /\ Unchanged /\ Silent

C15_Witness ==
  /\ call.op = "PATCH" /\ call.userId = "u1" /\ call.status = 404
  /\ Has(call.body, "status") /\ Has(call.body, "dueDate")
  /\ idSeq = 1 /\ tasks = [i \in {} |-> NULL]

\* The body is one the schemas refuse: not JSON, a title that is empty or
\* longer than 140 characters, a status or priority outside the allowed
\* values, or (PATCH) a task id that is not a cuid.
Refused ==
  /\ call.op \in {"POST", "PATCH"}
  /\ \/ call.body = NotJson
     \/ Has(call.body, "title") /\ call.body.title \in {"", TooLong}
     \/ Has(call.body, "status") /\ call.body.status \notin {"PENDING", "IN_PROGRESS", "COMPLETED"}
     \/ Has(call.body, "priority") /\ call.body.priority \notin {"LOW", "MEDIUM", "HIGH"}
     \/ call.op = "PATCH" /\ call.id = BadId

\* C16: a POST or PATCH of an authenticated session whose body the schema
\* refuses answers 400, creates or changes no record and makes no email and no
\* calendar call.
C16_InvalidBodyIs400 ==
  (Authenticated /\ call.op \in {"POST", "PATCH"} /\ Refused)
  => call.status = 400 /\ Unchanged /\ Silent

C16_Witness ==
  /\ call.op = "PATCH" /\ call.userId = "u1" /\ call.id \in DOMAIN tasks
  /\ Stored.userId = "u1" /\ call.body = [title |-> TooLong]
  /\ call.status = 400 /\ call.db = 0

\* The database call that was set to fail has been made.
DatabaseFailed == call.failAt # 0 /\ call.db = call.failAt

\* C17: a database failure is answered with 500 by every task route; 400 is
\* answered only to invalid input and 404 only for a missing task.
C17_ProperStatusCodes ==
  call.op \in Routes
  => /\ DatabaseFailed => call.status = 500
     /\ call.status = 400 => Refused \/ (call.op = "POST" /\ ~Has(call.body, "title"))
                                \/ (call.op = "GET" /\ Has(call.query, "status"))
     /\ call.status = 404 => call.id \notin DOMAIN call.pre.tasks

\* C18: a request without an authenticated session is answered 401: no
\* database call, no record changed, no email and no calendar call.
C18_NoSessionIs401 ==
  (call.op \in Routes /\ call.userId = NoSession)
  => call.status = 401 /\ call.db = 0 /\ Unchanged /\ Silent

C18_Witness ==
  /\ call.op = "DELETE" /\ call.userId = NoSession /\ call.status = 401
  /\ call.id \in DOMAIN tasks /\ Stored.emailNotification
  /\ Stored.calendarEventId \in events

\* --------------------------------------------------------- the dashboard
\* The toggle has been answered; the task it was clicked on was listed as it
\* was stored (no other write since the list was fetched).
ToggleDone == call.op = "handleStatusToggle" /\ call.result = "ok"
FreshTask ==
  call.task.status = Prior.status /\ call.task.previousStatus = Prior.previousStatus

\* The stored task after the toggle is clicked once more, right now.
ToggledAgain ==
  RoutePATCH(World, DashboardUser, call.id,
             serializePartialPayload([status |-> nextStatus(Stored)]),
             call.now + 1, "ok", "ok", 0).w.tasks[call.id]

\* C14: the toggle on a PENDING or IN_PROGRESS task completes it, and the
\* toggle applied again with no write in between gives back the original
\* status with previousStatus and completedAt null; the toggle on a completed
\* task restores the stored previousStatus, or PENDING when none is stored.
C14_ToggleTwiceRestores ==
  /\ (ToggleDone /\ FreshTask /\ Prior.status \in {"PENDING", "IN_PROGRESS"})
       => /\ Stored.status = "COMPLETED"
          /\ ToggledAgain.status = Prior.status
          /\ ToggledAgain.previousStatus = NULL
          /\ ToggledAgain.completedAt = NoDate
  /\ (ToggleDone /\ FreshTask /\ Prior.status = "COMPLETED")
       => /\ Stored.status = IF Prior.previousStatus = NULL THEN "PENDING"
                             ELSE Prior.previousStatus
          /\ Stored.previousStatus = NULL
          /\ Stored.completedAt = NoDate

C14_Witness ==
  /\ ToggleDone /\ FreshTask /\ clock = 3
  /\ Prior.status = "COMPLETED" /\ Prior.previousStatus = "IN_PROGRESS"
  /\ Prior.completedAt # NoDate
  /\ Stored.status = "IN_PROGRESS" /\ Stored.previousStatus = NULL
  /\ Stored.completedAt = NoDate

\* C19: the task-list query is not run again after an answer with a 4xx
\* status, and after any other failure it is run again at most twice.
C19_NoRetryOn4xx ==
  /\ query.state = "retrying" => query.lastStatus \notin 400..499
  /\ query.retries <= 2

\* C20: once "Mark active" on a completed task has been answered, the edit
\* dialog is open for that task.
C20_MarkActiveOpensDialog ==
  (ToggleDone /\ FreshTask /\ Prior.status = "COMPLETED")
  => dialogOpen /\ editingTask = call.id

\* ------------------------------------------------------- stored tasks
\* C21: in every reachable state each stored task has completedAt set exactly
\* when its status is COMPLETED.
C21_CompletedAtIffCompleted ==
  \A id \in DOMAIN tasks :
    tasks[id].completedAt # NoDate <=> tasks[id].status = "COMPLETED"

\* C22: in every reachable state each stored task's previousStatus is null,
\* PENDING or IN_PROGRESS, and it is non-null only while the status is
\* COMPLETED.
C22_PreviousStatusOnlyWhileCompleted ==
  \A id \in DOMAIN tasks :
    /\ tasks[id].previousStatus \in {NULL, "PENDING", "IN_PROGRESS"}
    /\ tasks[id].previousStatus # NULL => tasks[id].status = "COMPLETED"

C22_Witness ==
  /\ Succeeded({"updateTask"}) /\ PayloadStatus = "COMPLETED"
  /\ Prior.status = "COMPLETED" /\ Prior.previousStatus = "PENDING"
  /\ Stored.status = "COMPLETED" /\ Stored.previousStatus = "PENDING"

====
